---- MODULE Spec2Model ----
(***************************************************************************)
(* Model of the backup pipeline of backup-nimbusTs:                        *)
(* MongoBackupProvider.createBackup and the stages it composes             *)
(* (mongodump, tar, the S3 put, removal of the scratch files), with the    *)
(* process-execution result of ShellCommandProvider and the configuration  *)
(* lookup of ConfigService.                                                *)
(*                                                                         *)
(* Strings are sequences of tokens: <<"backups/">> \o name is the          *)
(* template string `backups/${name}`.  The empty string is << >>.          *)
(***************************************************************************)
EXTENDS Integers, Sequences, FiniteSets, TLC

(***************************************************************************)
(* Bounds of the model.                                                    *)
(***************************************************************************)
MaxRuns == 2
MaxClock == 1
MaxBytes == 1

(***************************************************************************)
(* Strings.                                                                *)
(***************************************************************************)
Undefined == <<"<undefined>">>

IsPrefix(s, t) == /\ Len(s) <= Len(t)
                  /\ \A i \in 1..Len(s) : s[i] = t[i]

Contains(t, s) == \E k \in 0..(Len(t) - Len(s)) :
                     \A i \in 1..Len(s) : t[k + i] = s[i]

Digit(n) == <<"0", "1", "2", "3", "4", "5", "6", "7", "8", "9">>[(n % 10) + 1]

\* new Date().toISOString() at clock reading n: date, ':', seconds, '.', millis
toISOString(n) == <<"2026-11-05T00", ":", Digit(n), ".", "000Z">>

\* String.prototype.replace(/[:.]/g, '-')
RECURSIVE replaceColonDot(_)
replaceColonDot(s) ==
  IF s = << >> THEN << >>
  ELSE <<(IF Head(s) \in {":", "."} THEN "-" ELSE Head(s))>> \o replaceColonDot(Tail(s))

\* path.join(dir, name) for a name without '.' or '..' segments
pathJoin(dir, name) == dir \o <<"/">> \o name

\* variant of path.basename: the directory part is kept
basename_path(p) == p

\* path.basename(p): what follows the last '/'
RECURSIVE basename(_)
basename(p) ==
  IF \A i \in 1..Len(p) : p[i] # "/" THEN p
  ELSE basename(Tail(p))

\* Buffer.from(s, 'base64').toString(): a token that is not base64 text
\* decodes to nothing
DecodeToken(t) ==
  CASE t = "bW9uZ286" -> <<"mongo:">>
    [] t = "YnVja2V0" -> <<"bucket">>
    [] OTHER -> << >>

RECURSIVE base64Decode(_)
base64Decode(s) ==
  IF s = << >> THEN << >> ELSE DecodeToken(Head(s)) \o base64Decode(Tail(s))

\* zod's z.string().base64(): a string (the empty one included) of base64
\* text
IsBase64String(v) ==
  /\ v # Undefined
  /\ \A i \in 1..Len(v) : v[i] \in {"bW9uZ286", "YnVja2V0"}

(***************************************************************************)
(* Configuration (ConfigService).                                          *)
(***************************************************************************)
UriValues == {Undefined, << >>, <<"bW9uZ286">>, <<"%%">>}
BucketValues == {Undefined, << >>, <<"YnVja2V0">>, <<"%%">>}

Environments == [MONGO_URI : UriValues, AWS_S3_BUCKET_NAME : BucketValues]

\* variant of the schema: z.string() without .base64()
schemaAccepts_anyString(env) ==
  /\ env.MONGO_URI # Undefined
  /\ env.AWS_S3_BUCKET_NAME # Undefined

\* configSchema.safeParse(process.env).success for the two required keys
schemaAccepts(env) ==
  /\ IsBase64String(env.MONGO_URI)
  /\ IsBase64String(env.AWS_S3_BUCKET_NAME)

\* ConfigService.get(key): the value when it is a string
configGet(cfg, key) ==
  IF key \in DOMAIN cfg /\ cfg[key] # Undefined THEN cfg[key] ELSE Undefined

\* !value for a string | undefined
IsFalsy(v) == v = Undefined \/ v = << >>

(***************************************************************************)
(* Errors: an Error object is [class, message].                            *)
(***************************************************************************)
MkError(class, message) == [isError |-> TRUE, class |-> class, message |-> message]

NoError == [isError |-> FALSE, class |-> "none", message |-> << >>]

ConfigurationError(message) == MkError("ConfigurationError", message)
BackupError(message) == MkError("BackupError", message)
StorageError(message) == MkError("StorageError", message)
FsError(code) == MkError("Error", <<code>>)

(***************************************************************************)
(* Process execution (ShellCommandProvider.executeWithOptions without a    *)
(* timeout, as CommandService.execute calls it).                           *)
(***************************************************************************)
NullCode == -1
ExitCodes == {0, 1}
Stderrs == {<< >>, <<"E">>}

ExecEvents == [type : {"close"}, code : ExitCodes \cup {NullCode}, stderr : Stderrs]
              \cup {[type |-> "error", code |-> NullCode, stderr |-> <<"spawn ENOENT">>]}

\* variant of the close handler: a null exit code is reported as 0
executeResult_nullZero(ev) ==
  IF ev.type = "close"
  THEN [stderr |-> ev.stderr,
        exitCode |-> IF ev.code = NullCode THEN 0 ELSE ev.code,
        success |-> ev.code = 0]
  ELSE [stderr |-> ev.stderr, exitCode |-> 1, success |-> FALSE]

\* the CommandResult the promise resolves with, by the event that settles it
executeResult(ev) ==
  IF ev.type = "close"
  THEN [stderr |-> ev.stderr,
        exitCode |-> IF ev.code = NullCode THEN 1 ELSE ev.code,
        success |-> ev.code = 0]
  ELSE [stderr |-> ev.stderr, exitCode |-> 1, success |-> FALSE]

NoCommandResult == [stderr |-> << >>, exitCode |-> NullCode, success |-> FALSE]

TimeoutExitCode == 124

\* the CommandResult the timeout callback resolves with
timeoutResult(stderr) ==
  [stderr |-> stderr \o <<"\nCommand execution timed out">>,
   exitCode |-> TimeoutExitCode,
   success |-> FALSE]

NoPromise == [settled |-> FALSE, value |-> NoCommandResult]

\* variant of resolve: a later call replaces the value
resolve_overwrite(p, v) == [settled |-> TRUE, value |-> v]

\* resolve(v) of `new Promise((resolve) => ...)`: only the first call settles
resolve(p, v) == IF p.settled THEN p ELSE [settled |-> TRUE, value |-> v]

(***************************************************************************)
(* File system: a function from the paths that exist to                    *)
(* [kind : "dir" | "file", n : bytes of the file; for a directory 0 when   *)
(* it has no entries and 1 when it has some].                              *)
(***************************************************************************)
FsPut(f, p, v) == [q \in (DOMAIN f) \cup {p} |-> IF q = p THEN v ELSE f[q]]
FsRemove(f, p) == [q \in (DOMAIN f) \ {p} |-> f[q]]

existsSync(f, p) == p \in DOMAIN f
IsDir(f, p) == p \in DOMAIN f /\ f[p].kind = "dir"
IsFile(f, p) == p \in DOMAIN f /\ f[p].kind = "file"
NonEmptyDir(f, p) == IsDir(f, p) /\ f[p].n > 0

tempDir == <<"/tmp">>

VARIABLES
  started,         \* ConfigService was constructed (the schema accepted the environment)
  config,          \* ConfigService.config
  clock,           \* the wall clock at its last reading by new Date()
  fs,              \* the file system under tempDir
  store,           \* the object store: the <<bucket, key>> that hold an object
  run,             \* index of the current createBackup call
  pc,              \* stage of the current run
  options,         \* BackupOptions of the current run
  timestamp,       \* createBackup's local `timestamp`
  backupPath,      \* createBackup's local `backupPath`
  finalBackupPath, \* createBackup's local `finalBackupPath`
  dumpResult,      \* CommandResult of mongodump in the current run
  tarResult,       \* CommandResult of tar in the current run
  lastPut,         \* the PutObjectCommandInput handed to save in the current run
  calls,           \* external calls of the current run, in order
  backupResult,    \* createBackup's local `backupResult`
  failedAt,        \* stage in which the current run failed
  thrown,          \* the error caught by createBackup in the current run
  outcome,         \* how the createBackup call completed
  result           \* the BackupResult returned

\* one call of ShellCommandProvider.executeWithOptions
VARIABLES
  execs,           \* calls of executeWithOptions made so far
  caller,          \* the method the current call was made through
  child,           \* the child process: none, running, killed (signalled), closed
  childExit,       \* the exit code of the 'close' event (NullCode: none, or a signal)
  errored,         \* the child has emitted 'error'
  timer,           \* the timeout timer: none, armed, fired, cleared
  stderrBuf,       \* the local `stderr` accumulated from 'data' events
  promise,         \* the promise returned to the caller
  resolveCalls,    \* times `resolve` was called for this promise
  lastResolve      \* the CommandResult of the last call of `resolve`

\* one invocation of the request handler (HandlerService.processEvent)
VARIABLES
  invocations,          \* invocations of the handler so far
  hpc,                  \* position in processEvent
  notificationsEnabled, \* NotificationService.isEnabled()
  event,                \* the event the handler was invoked with
  performed,            \* how `await this.performBackup()` completed
  notifications,        \* notifications handed to the provider in this invocation
  handled,              \* the error given to ErrorHandler.handleError
  response              \* the APIGatewayProxyResult returned

\* createBackup calls in flight at the same time on the one provider
VARIABLE
  flight                \* per call: its stage and the locals of createBackup

\* the Logger singleton
VARIABLES
  logConfig,       \* what the ConfigService factory gives the logger
  logLevel,        \* Logger.logLevel (NoLogLevel while undefined)
  resolutions,     \* calls of getLogLevelFromEnvironment made so far
  logCalls,        \* calls of debug/info/warn/error made so far
  lastLog          \* the last call: its level and whether a line was written

loggerVars == <<logConfig, logLevel, resolutions, logCalls, lastLog>>

pipelineVars == <<started, config, clock, fs, store, run, pc, options, timestamp,
                  backupPath, finalBackupPath, dumpResult, tarResult, lastPut,
                  calls, backupResult, failedAt, thrown, outcome, result>>

shellVars == <<execs, caller, child, childExit, errored, timer, stderrBuf, promise, resolveCalls,
               lastResolve>>

handlerVars == <<invocations, hpc, notificationsEnabled, event, performed,
                 notifications, handled, response>>

vars == <<pipelineVars, shellVars, handlerVars, flight, loggerVars>>

NoResult == [none |-> TRUE]
NoPut == [Bucket |-> << >>, Key |-> << >>, Body |-> 0, ContentType |-> "none"]
NoOptions == [name |-> Undefined, timestamp |-> Undefined, compress |-> "undefined"]

EmptyFs == [p \in {} |-> [kind |-> "dir", n |-> 0]]

EmptyStore == {}

(***************************************************************************)
(* MongoBackupProvider: the pure parts of createBackup and of its stages.  *)
(***************************************************************************)
Names == {Undefined, <<"a">>}
Timestamps == {Undefined, toISOString(0)}
CompressFlags == {"undefined", "true", "false"}

BackupOptions == [name : Names, timestamp : Timestamps, compress : CompressFlags]

\* options.timestamp ?? new Date().toISOString().replace(/[:.]/g, '-')
deriveTimestamp(opts, now) ==
  IF opts.timestamp # Undefined THEN opts.timestamp
  ELSE replaceColonDot(toISOString(now))

\* options.name ?? `mongodb-backup-${timestamp}`
deriveBackupName(opts, ts) ==
  IF opts.name # Undefined THEN opts.name ELSE <<"mongodb-backup-">> \o ts

deriveBackupPath(opts, ts) == pathJoin(tempDir, deriveBackupName(opts, ts))

\* variant of the compression test: an absent flag counts as false
compressRequested_strict(compress) == compress = "true"

\* compress !== false
compressRequested(compress) == compress # "false"

\* variant of handleBackupError: the failure result also carries a size
handleBackupError_sized(error, now) ==
  [success |-> FALSE,
   backupId |-> << >>,
   timestamp |-> toISOString(now),
   size |-> 0,
   error |-> IF error.isError THEN error.message
             ELSE <<"Unknown error during backup">>]

\* handleBackupError: the failure result, stamped with the time of the failure
handleBackupError(error, now) ==
  [success |-> FALSE,
   backupId |-> << >>,
   timestamp |-> toISOString(now),
   error |-> IF error.isError THEN error.message
             ELSE <<"Unknown error during backup">>]

\* variant of the catch clause: only application errors become a result,
\* any other error is rethrown
createBackupCatch_rethrow(error, now) ==
  IF error.class = "Error"
  THEN [outcome |-> "threw", result |-> [none |-> TRUE]]
  ELSE [outcome |-> "returned", result |-> handleBackupError(error, now)]

\* the catch clause of createBackup: every error becomes a returned result
createBackupCatch(error, now) ==
  [outcome |-> "returned", result |-> handleBackupError(error, now)]

\* variant of the catch clause: the scratch files are removed on failure
catchFileSystem_cleanup(f, bp, fp) == FsRemove(FsRemove(f, bp), fp)

\* what the catch clause of createBackup does to the scratch files: nothing
catchFileSystem(f, bp, fp) == f

\* decodeMongoUri: the decoded URI, or the error thrown
decodeMongoUri(cfg) ==
  LET mongoUri == configGet(cfg, "MONGO_URI") IN
  IF IsFalsy(mongoUri)
  THEN [error |-> ConfigurationError(<<"MongoDB URI is not configured">>), value |-> << >>]
  ELSE [error |-> NoError, value |-> base64Decode(mongoUri)]

\* variant of createMongoDump: the exit code decides
createMongoDump_exitCode(f, bp, res) ==
  IF ~res.success
  THEN BackupError(<<"MongoDB backup failed: ">> \o res.stderr)
  ELSE NoError

\* createMongoDump after the process has completed: the error thrown, or NoError
createMongoDump(f, bp, res) ==
  IF ~existsSync(f, bp)
  THEN BackupError(<<"MongoDB backup failed: ">> \o res.stderr)
  ELSE IF IsFile(f, bp) THEN FsError("ENOTDIR: not a directory, scandir")
  ELSE IF f[bp].n = 0
  THEN BackupError(<<"MongoDB backup failed: ">> \o res.stderr)
  ELSE NoError

\* variant of compressBackupIfNeeded: the result of tar is not looked at
compressBackupIfNeeded_unchecked(bp, res) ==
  [error |-> NoError, path |-> bp \o <<".tar.gz">>]

\* compressBackupIfNeeded after tar has completed
compressBackupIfNeeded(bp, res) ==
  IF ~res.success
  THEN [error |-> BackupError(<<"Failed to compress backup: ">> \o res.stderr), path |-> << >>]
  ELSE [error |-> NoError, path |-> bp \o <<".tar.gz">>]

\* fs.readFileSync(p): the byte length read, or the error thrown
readFileSync(f, p, ioError) ==
  IF ~existsSync(f, p)
  THEN [error |-> FsError("ENOENT: no such file or directory, open"), length |-> 0]
  ELSE IF IsDir(f, p)
  THEN [error |-> FsError("EISDIR: illegal operation on a directory, read"), length |-> 0]
  ELSE IF ioError THEN [error |-> FsError("EIO: i/o error, read"), length |-> 0]
  ELSE [error |-> NoError, length |-> f[p].n]

\* uploadBackupToS3 up to the call of save: the parameters of the put, or
\* the error thrown
uploadRequest(f, fp, compress, cfg, ioError) ==
  LET backupFile == readFileSync(f, fp, ioError)
      bucketName == configGet(cfg, "AWS_S3_BUCKET_NAME")
  IN  IF backupFile.error.isError THEN [error |-> backupFile.error, params |-> NoPut]
      ELSE IF IsFalsy(bucketName)
      THEN [error |-> ConfigurationError(<<"S3 bucket name is not configured">>),
            params |-> NoPut]
      ELSE [error |-> NoError,
            params |-> [Bucket |-> base64Decode(bucketName),
                        Key |-> <<"backups/">> \o basename(fp),
                        Body |-> backupFile.length,
                        ContentType |-> IF compress # "false" THEN "application/gzip"
                                        ELSE "application/octet-stream"]]

\* variant of uploadReturn: the location is built from the key alone
uploadReturn_noBucket(params) ==
  [s3Key |-> params.Key,
   size |-> params.Body,
   location |-> <<"s3://">> \o params.Key]

\* what uploadBackupToS3 returns once save has resolved
uploadReturn(params) ==
  [s3Key |-> params.Key,
   size |-> params.Body,
   location |-> <<"s3://">> \o params.Bucket \o <<"/">> \o params.Key]

NoUpload == [s3Key |-> << >>, size |-> 0, location |-> << >>]

\* variant of save: the client's error is rethrown as it is
saveError_rethrow(params, message) == MkError("Error", message)

\* S3StorageService.save when the client rejects the put of `params` with an
\* Error carrying `message`: the StorageError thrown, with its details and
\* its cause
saveError(params, message) ==
  StorageError(<<"Failed to save data to S3: ">> \o message)
    @@ [details |-> [bucket |-> params.Bucket, key |-> params.Key],
        cause |-> MkError("Error", message)]

\* variant of cleanupTemporaryFiles: a failing removal is rethrown
cleanupTemporaryFiles_rethrow(f, bp, fp, compress, rm1Fails, rm2Fails) ==
  LET first == compress # "false"
      f1 == IF first /\ ~rm1Fails THEN FsRemove(f, bp) ELSE f
      secondRuns == ~(first /\ rm1Fails)
      secondFails == rm2Fails \/ IsDir(f1, fp)
      f2 == IF secondRuns /\ ~secondFails THEN FsRemove(f1, fp) ELSE f1
  IN  [fs |-> f2,
       calls |-> (IF first THEN <<"rm:backupPath">> ELSE << >>)
                 \o (IF secondRuns THEN <<"rm:finalBackupPath">> ELSE << >>),
       threw |-> (first /\ rm1Fails) \/ (secondRuns /\ secondFails)]

\* cleanupTemporaryFiles: both removals sit in one try block, whose catch only
\* logs.  rm1Fails, rm2Fails: the removal throws (EPERM, EBUSY, ...)
cleanupTemporaryFiles(f, bp, fp, compress, rm1Fails, rm2Fails) ==
  LET first == compress # "false"
      f1 == IF first /\ ~rm1Fails THEN FsRemove(f, bp) ELSE f
      secondRuns == ~(first /\ rm1Fails)
      \* rmSync without `recursive` throws on a directory
      secondFails == rm2Fails \/ IsDir(f1, fp)
      f2 == IF secondRuns /\ ~secondFails THEN FsRemove(f1, fp) ELSE f1
  IN  [fs |-> f2,
       calls |-> (IF first THEN <<"rm:backupPath">> ELSE << >>)
                 \o (IF secondRuns THEN <<"rm:finalBackupPath">> ELSE << >>),
       threw |-> FALSE]

\* the success result of createBackup
successResult(uploaded, ts) ==
  [success |-> TRUE,
   backupId |-> uploaded.s3Key,
   timestamp |-> ts,
   size |-> uploaded.size,
   location |-> uploaded.location]

(***************************************************************************)
(* What the external tools do to the file system.                          *)
(***************************************************************************)
DumpWrites == {"nothing", "mkdir", "write"}

\* mongodump --out=p: writes nothing, creates the directory only, or dumps
\* entries into it; it cannot dump into a path that is a regular file
mongodumpEffect(f, p, w) ==
  IF IsFile(f, p) \/ w = "nothing" THEN f
  ELSE IF w = "mkdir" THEN (IF existsSync(f, p) THEN f ELSE FsPut(f, p, [kind |-> "dir", n |-> 0]))
  ELSE FsPut(f, p, [kind |-> "dir", n |-> 1])

TarWrites == [wrote : BOOLEAN, bytes : 0..MaxBytes]

\* tar -czf target: exit code 0 means the archive was written (a gzip stream
\* is never empty); a failing tar may leave a truncated archive; tar cannot
\* write over a directory
tarPossible(f, target, ev, w) ==
  /\ ev.type = "error" => ~w.wrote
  /\ IsDir(f, target) => ~w.wrote /\ ev.code # 0
  /\ IF ev.type = "close" /\ ev.code = 0
     THEN w.wrote /\ w.bytes >= 1
     ELSE w.bytes = 0

tarEffect(f, target, w) ==
  IF w.wrote THEN FsPut(f, target, [kind |-> "file", n |-> w.bytes]) ELSE f

S3Events == {[ok |-> TRUE, message |-> << >>], [ok |-> FALSE, message |-> <<"AccessDenied">>]}

(***************************************************************************)
(* Initial state: the service container has been built from the            *)
(* environment; nothing has run.                                           *)
(***************************************************************************)
(***************************************************************************)
(* Errors as the request handler sees them (ApplicationError and its       *)
(* subclasses, plain Error objects, thrown values that are no Error), and  *)
(* ErrorHandler.handleError.                                               *)
(***************************************************************************)
Stacks == {"stack1", "stack2"}
Causes == {<< >>, <<"cause1">>, <<"cause2">>}

NoDetails == [defined |-> FALSE, value |-> [none |-> TRUE]]
Details(d) == [defined |-> TRUE, value |-> d]

\* the statusCode the subclass hands to super()
StatusCodeOf(class) ==
  CASE class = "ValidationError" -> 400
    [] class = "NotFoundError" -> 404
    [] OTHER -> 500

\* the code the subclass hands to super()
CodeOf(class) ==
  CASE class = "ConfigurationError" -> "CONFIGURATION_ERROR"
    [] class = "BackupError" -> "BACKUP_ERROR"
    [] class = "ValidationError" -> "VALIDATION_ERROR"
    [] class = "StorageError" -> "STORAGE_ERROR"
    [] class = "CommandExecutionError" -> "COMMAND_EXECUTION_ERROR"
    [] class = "NotFoundError" -> "NOT_FOUND"
    [] class = "NotificationError" -> "NOTIFICATION_ERROR"
    [] OTHER -> "INTERNAL_SERVER_ERROR"

\* new <class>(message, {details, cause}) at clock reading now
newApplicationError(class, message, details, cause, stack, now) ==
  [isError |-> TRUE, isApplicationError |-> TRUE, class |-> class,
   message |-> message,
   statusCode |-> StatusCodeOf(class),
   code |-> CodeOf(class),
   path |-> Undefined,
   timestamp |-> toISOString(now),
   details |-> details,
   cause |-> cause,
   stack |-> stack]

\* new Error(message)
newError(message, cause, stack) ==
  [isError |-> TRUE, isApplicationError |-> FALSE, class |-> "Error",
   message |-> message, statusCode |-> 0, code |-> "", path |-> Undefined,
   timestamp |-> << >>, details |-> NoDetails, cause |-> cause, stack |-> stack]

\* a thrown value that is not an Error
thrownValue ==
  [isError |-> FALSE, isApplicationError |-> FALSE, class |-> "value",
   message |-> << >>, statusCode |-> 0, code |-> "", path |-> Undefined,
   timestamp |-> << >>, details |-> NoDetails, cause |-> << >>, stack |-> "none"]

NoThrown == [thrownValue EXCEPT !.class = "none"]

\* variant of toJSON: the stack is part of the envelope
toJSON_stack(e) ==
  [error |-> [code |-> e.code, message |-> e.message, timestamp |-> e.timestamp,
              path |-> e.path, details |-> e.details, stack |-> e.stack]]

\* ApplicationError.toJSON()
toJSON(e) ==
  [error |-> [code |-> e.code, message |-> e.message, timestamp |-> e.timestamp,
              path |-> e.path, details |-> e.details]]

\* JSON.stringify of the envelope: properties whose value is undefined are
\* left out
JSONstringify(j) ==
  LET e == j.error
      keys == ((DOMAIN e) \ {"path", "details"})
                \cup (IF e.path # Undefined THEN {"path"} ELSE {})
                \cup (IF e.details.defined THEN {"details"} ELSE {})
  IN  [error |-> [k \in keys |-> IF k = "details" THEN e.details.value ELSE e[k]]]

\* variant of handleError: the status of a typed error is not used
handleError_always500(error, now) ==
  LET appError ==
        IF error.isApplicationError THEN error
        ELSE newApplicationError("ApplicationError", <<"An unexpected error occurred">>,
               NoDetails, << >>, "stack:handleError", now)
  IN  [statusCode |-> 500,
       body |-> JSONstringify(toJSON(appError)),
       headers |-> "application/json"]

\* ErrorHandler.handleError(error) at clock reading now
handleError(error, now) ==
  LET appError ==
        IF error.isApplicationError THEN error
        ELSE IF error.isError
        THEN newApplicationError("ApplicationError",
               IF error.message # << >> THEN error.message
               ELSE <<"An unexpected error occurred">>,
               NoDetails, <<error.class, error.stack>> \o error.cause,
               "stack:handleError", now)
        ELSE newApplicationError("ApplicationError", <<"An unexpected error occurred">>,
               NoDetails, <<error.class>>, "stack:handleError", now)
  IN  [statusCode |-> appError.statusCode,
       body |-> JSONstringify(toJSON(appError)),
       headers |-> "application/json"]

\* the BackupError handleFailedBackup hands to handleError
failedBackupError(res, stack, now) ==
  newApplicationError("BackupError",
    IF "error" \in DOMAIN res THEN res.error
    ELSE <<"Backup operation failed">>,
    Details([backupResult |-> res]), << >>, stack, now)

\* HandlerService.createSuccessResponse(backupResult, event)
createSuccessResponse(res, ev) ==
  [statusCode |-> 200,
   body |-> IF ev = Undefined
            THEN [message |-> <<"Backup created successfully">>,
                  backupResult |-> res]
            ELSE [message |-> <<"Backup created successfully">>,
                  backupResult |-> res,
                  input |-> ev],
   headers |-> "application/json"]

NoResponse == [statusCode |-> 0, body |-> [none |-> TRUE], headers |-> "none"]
NoPerformed == [kind |-> "none", result |-> NoResult, error |-> NoThrown]

\* the handler has not been invoked
HandlerAtRest(enabled) ==
  /\ invocations = 0
  /\ hpc = "Idle"
  /\ notificationsEnabled = enabled
  /\ event = Undefined
  /\ performed = NoPerformed
  /\ notifications = << >>
  /\ handled = NoThrown
  /\ response = NoResponse

\* the calls that can be in flight together
Flights == {"A", "B"}

NoFlight ==
  [pc |-> "Idle", options |-> NoOptions, timestamp |-> << >>,
   backupPath |-> << >>, finalBackupPath |-> << >>]

\* no createBackup call is in flight
NoFlights == flight = [r \in Flights |-> NoFlight]

\* enum LogLevel
LogLevels == {"DEBUG", "INFO", "WARN", "ERROR"}

LogLevel(name) ==
  CASE name = "DEBUG" -> 0
    [] name = "INFO" -> 1
    [] name = "WARN" -> 2
    [] name = "ERROR" -> 3

\* `private logLevel?: LogLevel` before its first assignment
NoLogLevel == 0 - 1

NodeEnvs == {"development", "production", "test"}

\* what the logger finds when it resolves its level: the factory throws, or
\* the validated configuration is there
LoggerConfigs == [fails : BOOLEAN, LOG_LEVEL : LogLevels, NODE_ENV : NodeEnvs]

NoLog == [level |-> "none", emitted |-> FALSE]

\* String.prototype.toUpperCase on the names of the levels
toUpperCase(str) ==
  CASE str = "debug" -> "DEBUG"
    [] str = "info" -> "INFO"
    [] str = "warn" -> "WARN"
    [] str = "error" -> "ERROR"
    [] OTHER -> str

\* Logger.getLogLevelFromEnvironment
getLogLevelFromEnvironment(cfg) ==
  IF cfg.fails THEN LogLevel("INFO")
  ELSE IF cfg.LOG_LEVEL # "undefined" /\ toUpperCase(cfg.LOG_LEVEL) \in LogLevels
  THEN LogLevel(toUpperCase(cfg.LOG_LEVEL))
  ELSE IF cfg.NODE_ENV = "production" THEN LogLevel("INFO")
  ELSE IF cfg.NODE_ENV = "test" THEN LogLevel("ERROR")
  ELSE LogLevel("DEBUG")

\* variant of ensureInitialized: `if (!this.logLevel)`
ensureInitialized_falsy(l, cfg) ==
  IF l = NoLogLevel \/ l = 0
  THEN [logLevel |-> getLogLevelFromEnvironment(cfg), resolved |-> TRUE]
  ELSE [logLevel |-> l, resolved |-> FALSE]

\* Logger.ensureInitialized: the level after the call, and whether the call
\* resolved it
ensureInitialized(l, cfg) ==
  IF l = NoLogLevel
  THEN [logLevel |-> getLogLevelFromEnvironment(cfg), resolved |-> TRUE]
  ELSE [logLevel |-> l, resolved |-> FALSE]

\* Logger.shouldLog once the level is there
shouldLog(level, l) == l # NoLogLevel /\ level >= l

\* the logger has not been called
LoggerAtRest(cfg) ==
  /\ logConfig = cfg
  /\ logLevel = NoLogLevel
  /\ resolutions = 0
  /\ logCalls = 0
  /\ lastLog = NoLog

DefaultLoggerConfig == [fails |-> FALSE, LOG_LEVEL |-> "INFO", NODE_ENV |-> "development"]

\* no call of executeWithOptions has been made
ShellAtRest ==
  /\ execs = 0
  /\ caller = "none"
  /\ child = "none"
  /\ childExit = NullCode
  /\ errored = FALSE
  /\ timer = "none"
  /\ stderrBuf = << >>
  /\ promise = NoPromise
  /\ resolveCalls = 0
  /\ lastResolve = NoCommandResult

\* the provider as constructed under the environment env
\* variant of validateConfig: the failure is logged and swallowed
validateConfig_swallow(env) == NoError

\* ConfigService.validateConfig: the error thrown out of the constructor
\* (NoError when the environment passes the schema)
validateConfig(env) ==
  IF schemaAccepts(env)
  THEN NoError
  ELSE MkError("ValidationError",
               <<"Configuration validation failed: ", "<zodError>">>)

PipelineInit(env) ==
  /\ started = ~validateConfig(env).isError
  /\ config = env
  /\ clock = 0
  /\ fs = EmptyFs
  /\ store = EmptyStore
  /\ run = 1
  /\ pc = "Idle"
  /\ options = NoOptions
  /\ timestamp = << >>
  /\ backupPath = << >>
  /\ finalBackupPath = << >>
  /\ dumpResult = NoCommandResult
  /\ tarResult = NoCommandResult
  /\ lastPut = NoPut
  /\ calls = << >>
  /\ backupResult = NoUpload
  /\ failedAt = "none"
  /\ thrown = NoError
  /\ outcome = "none"
  /\ result = NoResult

Init ==
  /\ \E env \in Environments : PipelineInit(env)
  /\ ShellAtRest
  /\ HandlerAtRest(FALSE)
  /\ NoFlights
  /\ LoggerAtRest(DefaultLoggerConfig)

\* new Date(): the clock is read; since its last reading it has advanced by
\* some amount (capped by MaxClock)
ReadClock == \E now \in clock..MaxClock : clock' = now

\* variant of the catch clause: the failing stage is entered again
Fail_retry(stage, error) ==
  /\ pc' = stage
  /\ UNCHANGED <<clock, failedAt, thrown, outcome, result>>

\* the run ends in the catch clause of createBackup, which reads the clock
Fail(stage, error) ==
  /\ ReadClock
  /\ LET c == createBackupCatch(error, clock') IN
     /\ pc' = "Failed"
     /\ failedAt' = stage
     /\ thrown' = error
     /\ outcome' = c.outcome
     /\ result' = c.result

NotFailed == UNCHANGED <<clock, failedAt, thrown, outcome, result>>

\* createBackup(options) is called: the locals of the run are fixed
createBackup(opts) ==
  /\ started
  /\ pc = "Idle"
  /\ options' = opts
  /\ IF opts.timestamp = Undefined THEN ReadClock ELSE UNCHANGED clock
  /\ timestamp' = deriveTimestamp(opts, clock')
  /\ backupPath' = deriveBackupPath(opts, timestamp')
  /\ pc' = "Dumping"
  /\ UNCHANGED <<failedAt, thrown, outcome, result>>
  /\ UNCHANGED <<started, config, fs, store, run, finalBackupPath,
                 dumpResult, tarResult, lastPut, calls, backupResult>>
  /\ UNCHANGED <<shellVars, handlerVars, flight, loggerVars>>

\* decodeMongoUri, then createMongoDump: run mongodump and verify its output
DumpStage ==
  /\ pc = "Dumping"
  /\ LET uri == decodeMongoUri(config) IN
     IF uri.error.isError
     THEN /\ Fail("Dumping", uri.error)
          /\ fs' = catchFileSystem(fs, backupPath, finalBackupPath)
          /\ UNCHANGED <<dumpResult, calls>>
     ELSE \E ev \in ExecEvents, w \in DumpWrites :
            LET res == executeResult(ev)
                f1 == mongodumpEffect(fs, backupPath, w)
                err == createMongoDump(f1, backupPath, res)
            IN  /\ ev.type = "error" => w = "nothing"
                /\ dumpResult' = res
                /\ calls' = Append(calls, "mongodump")
                /\ IF err.isError
                   THEN /\ Fail("Dumping", err)
                        /\ fs' = catchFileSystem(f1, backupPath, finalBackupPath)
                   ELSE /\ pc' = "Compressing"
                        /\ fs' = f1
                        /\ NotFailed
  /\ UNCHANGED <<started, config, store, run, options, timestamp,
                 backupPath, finalBackupPath, tarResult, lastPut, backupResult>>
  /\ UNCHANGED <<shellVars, handlerVars, flight, loggerVars>>

\* compressBackupIfNeeded: run tar unless compression was declined
CompressStage ==
  /\ pc = "Compressing"
  /\ IF ~compressRequested(options.compress)
     THEN /\ finalBackupPath' = backupPath
          /\ pc' = "Uploading"
          /\ NotFailed
          /\ UNCHANGED <<fs, tarResult, calls>>
     ELSE \E ev \in ExecEvents, w \in TarWrites :
            LET target == backupPath \o <<".tar.gz">>
                res == executeResult(ev)
                f1 == tarEffect(fs, target, w)
                c == compressBackupIfNeeded(backupPath, res)
            IN  /\ tarPossible(fs, target, ev, w)
                /\ tarResult' = res
                /\ calls' = Append(calls, "tar")
                /\ IF c.error.isError
                   THEN /\ Fail("Compressing", c.error)
                        /\ fs' = catchFileSystem(f1, backupPath, finalBackupPath)
                        /\ UNCHANGED finalBackupPath
                   ELSE /\ finalBackupPath' = c.path
                        /\ pc' = "Uploading"
                        /\ fs' = f1
                        /\ NotFailed
  /\ UNCHANGED <<started, config, store, run, options, timestamp,
                 backupPath, dumpResult, lastPut, backupResult>>
  /\ UNCHANGED <<shellVars, handlerVars, flight, loggerVars>>

\* uploadBackupToS3: read the artifact, resolve the bucket, put the object
UploadStage ==
  /\ pc = "Uploading"
  /\ \E ioError \in BOOLEAN, s3 \in S3Events :
       LET req == uploadRequest(fs, finalBackupPath, options.compress, config, ioError) IN
       IF req.error.isError
       THEN /\ Fail("Uploading", req.error)
            /\ fs' = catchFileSystem(fs, backupPath, finalBackupPath)
            /\ UNCHANGED <<store, lastPut, calls, backupResult>>
       ELSE /\ lastPut' = req.params
            /\ calls' = Append(calls, "put")
            /\ IF s3.ok
               THEN /\ store' = store \cup {<<req.params.Bucket, req.params.Key>>}
                    /\ backupResult' = uploadReturn(req.params)
                    /\ pc' = "CleaningUp"
                    /\ NotFailed
                    /\ UNCHANGED fs
               ELSE /\ Fail("Uploading", saveError(req.params, s3.message))
                    /\ fs' = catchFileSystem(fs, backupPath, finalBackupPath)
                    /\ UNCHANGED <<store, backupResult>>
  /\ UNCHANGED <<started, config, run, options, timestamp, backupPath,
                 finalBackupPath, dumpResult, tarResult>>
  /\ UNCHANGED <<shellVars, handlerVars, flight, loggerVars>>

\* cleanupTemporaryFiles, then the success result is returned
CleanupStage ==
  /\ pc = "CleaningUp"
  /\ \E rm1Fails \in BOOLEAN, rm2Fails \in BOOLEAN :
       LET c == cleanupTemporaryFiles(fs, backupPath, finalBackupPath,
                                      options.compress, rm1Fails, rm2Fails)
       IN  /\ calls' = calls \o c.calls
           /\ IF c.threw
              THEN /\ Fail("CleaningUp", FsError("EPERM: operation not permitted, rm"))
                   /\ fs' = catchFileSystem(c.fs, backupPath, finalBackupPath)
              ELSE /\ fs' = c.fs
                   /\ pc' = "Done"
                   /\ outcome' = "returned"
                   /\ result' = successResult(backupResult, timestamp)
                   /\ UNCHANGED <<clock, failedAt, thrown>>
  /\ UNCHANGED <<started, config, store, run, options, timestamp,
                 backupPath, finalBackupPath, dumpResult, tarResult, lastPut,
                 backupResult>>
  /\ UNCHANGED <<shellVars, handlerVars, flight, loggerVars>>

\* the caller has its result; the provider (a singleton) awaits its next call
NextRun ==
  /\ pc \in {"Done", "Failed"}
  /\ run < MaxRuns
  /\ run' = run + 1
  /\ pc' = "Idle"
  /\ options' = NoOptions
  /\ timestamp' = << >>
  /\ backupPath' = << >>
  /\ finalBackupPath' = << >>
  /\ dumpResult' = NoCommandResult
  /\ tarResult' = NoCommandResult
  /\ lastPut' = NoPut
  /\ calls' = << >>
  /\ backupResult' = NoUpload
  /\ failedAt' = "none"
  /\ thrown' = NoError
  /\ outcome' = "none"
  /\ result' = NoResult
  /\ UNCHANGED <<started, config, clock, fs, store>>
  /\ UNCHANGED <<shellVars, handlerVars, flight, loggerVars>>

Next ==
  \/ \E opts \in BackupOptions : createBackup(opts)
  \/ DumpStage
  \/ CompressStage
  \/ UploadStage
  \/ CleanupStage
  \/ NextRun

Spec == Init /\ [][Next]_vars

(***************************************************************************)
(* ShellCommandProvider.executeWithOptions with its timeout: the calls of  *)
(* one caller, one after the other, and the events of each child.          *)
(***************************************************************************)
MaxExecs == 2
MaxChunks == 2

ValidEnvironment == [MONGO_URI |-> <<"bW9uZ286">>, AWS_S3_BUCKET_NAME |-> <<"YnVja2V0">>]

ShellInit ==
  /\ PipelineInit(ValidEnvironment)
  /\ ShellAtRest
  /\ HandlerAtRest(FALSE)
  /\ NoFlights
  /\ LoggerAtRest(DefaultLoggerConfig)

\* the body of executeWithOptions: spawn, and setTimeout when a timeout is
\* given (`if (timeout)`)
Spawn(by, timeoutGiven) ==
  /\ execs < MaxExecs
  /\ execs = 0 \/ promise.settled
  /\ execs' = execs + 1
  /\ caller' = by
  /\ child' = "running"
  /\ childExit' = NullCode
  /\ errored' = FALSE
  /\ timer' = IF timeoutGiven THEN "armed" ELSE "none"
  /\ stderrBuf' = << >>
  /\ promise' = NoPromise
  /\ resolveCalls' = 0
  /\ lastResolve' = NoCommandResult
  /\ UNCHANGED <<pipelineVars, handlerVars, flight, loggerVars>>

\* executeWithOptions(command, {timeout}) called by a client
executeWithOptions(timeoutGiven) == Spawn("executeWithOptions", timeoutGiven)

\* execute(command, args): executeWithOptions(command, {args}), the call
\* createMongoDump and compressBackupIfNeeded make; no timeout is among the
\* options
execute == Spawn("execute", FALSE)

\* childProcess.stderr.on('data'): stderr += data
onStderrData ==
  /\ child \in {"running", "killed"}
  /\ Len(stderrBuf) < MaxChunks
  /\ stderrBuf' = Append(stderrBuf, "E")
  /\ UNCHANGED <<execs, caller, child, childExit, errored, timer, promise,
                 resolveCalls, lastResolve>>
  /\ UNCHANGED <<pipelineVars, handlerVars, flight, loggerVars>>

\* the setTimeout callback: childProcess.kill(), resolve(timeout outcome)
onTimeout ==
  /\ timer = "armed"
  /\ timer' = "fired"
  /\ child' = IF child = "running" THEN "killed" ELSE child
  /\ promise' = resolve(promise, timeoutResult(stderrBuf))
  /\ resolveCalls' = resolveCalls + 1
  /\ lastResolve' = timeoutResult(stderrBuf)
  /\ UNCHANGED <<execs, caller, childExit, errored, stderrBuf>>
  /\ UNCHANGED <<pipelineVars, handlerVars, flight, loggerVars>>

\* childProcess.on('close'): clearTimeout, resolve(close outcome); after a
\* failed spawn the code is not 0
onClose(code) ==
  /\ child \in {"running", "killed"}
  /\ errored => code # 0
  /\ child' = "closed"
  /\ childExit' = code
  /\ timer' = IF timer = "armed" THEN "cleared" ELSE timer
  /\ LET res == executeResult([type |-> "close", code |-> code, stderr |-> stderrBuf]) IN
       /\ promise' = resolve(promise, res)
       /\ lastResolve' = res
  /\ resolveCalls' = resolveCalls + 1
  /\ UNCHANGED <<execs, caller, errored, stderrBuf>>
  /\ UNCHANGED <<pipelineVars, handlerVars, flight, loggerVars>>

\* variant of the error listener: the timer is left armed
onError_noClear(ev) ==
  /\ ev.type = "error"
  /\ child \in {"running", "killed"}
  /\ ~errored
  /\ errored' = TRUE
  /\ promise' = resolve(promise, executeResult(ev))
  /\ lastResolve' = executeResult(ev)
  /\ resolveCalls' = resolveCalls + 1
  /\ UNCHANGED <<execs, caller, child, childExit, timer, stderrBuf>>
  /\ UNCHANGED <<pipelineVars, handlerVars, flight, loggerVars>>

\* childProcess.on('error'): clearTimeout, resolve(error outcome)
onError(ev) ==
  /\ ev.type = "error"
  /\ child \in {"running", "killed"}
  /\ ~errored
  /\ errored' = TRUE
  /\ timer' = IF timer = "armed" THEN "cleared" ELSE timer
  /\ promise' = resolve(promise, executeResult(ev))
  /\ lastResolve' = executeResult(ev)
  /\ resolveCalls' = resolveCalls + 1
  /\ UNCHANGED <<execs, caller, child, childExit, stderrBuf>>
  /\ UNCHANGED <<pipelineVars, handlerVars, flight, loggerVars>>

ShellNext ==
  \/ \E timeoutGiven \in BOOLEAN : executeWithOptions(timeoutGiven)
  \/ execute
  \/ onStderrData
  \/ onTimeout
  \/ \E code \in ExitCodes \cup {NullCode} : onClose(code)
  \/ \E ev \in ExecEvents : onError(ev)

ShellSpec == ShellInit /\ [][ShellNext]_vars

(***************************************************************************)
(* The request handler (HandlerService.processEvent): one invocation after *)
(* the other. createBackup is taken by what it can return; the errors fed  *)
(* to the catch clause are those a dependency can throw.                   *)
(***************************************************************************)
MaxInvocations == 2

Events == {Undefined, <<"event">>}

pipelineVarsButClock ==
  <<started, config, fs, store, run, pc, options, timestamp, backupPath,
    finalBackupPath, dumpResult, tarResult, lastPut, calls, backupResult,
    failedAt, thrown, outcome, result>>

\* the success result of a run without options started at clock reading now
HandlerSuccessResult(now) ==
  LET ts == deriveTimestamp(NoOptions, now)
      fp == deriveBackupPath(NoOptions, ts) \o <<".tar.gz">>
      req == uploadRequest(FsPut(EmptyFs, fp, [kind |-> "file", n |-> 1]), fp,
                           NoOptions.compress, ValidEnvironment, FALSE)
  IN  successResult(uploadReturn(req.params), ts)

\* errors the stages of createBackup throw
StageErrors ==
  {decodeMongoUri([MONGO_URI |-> << >>, AWS_S3_BUCKET_NAME |-> << >>]).error,
   createMongoDump(EmptyFs, tempDir, executeResult([type |-> "close", code |-> 1, stderr |-> <<"E">>])),
   saveError(uploadRequest(FsPut(EmptyFs, tempDir, [kind |-> "file", n |-> 1]), tempDir,
                           NoOptions.compress, ValidEnvironment, FALSE).params,
             <<"AccessDenied">>)}

\* the failure results createBackup returns at clock reading now
HandlerFailureResults(now) == {handleBackupError(e, now) : e \in StageErrors}

\* the subclasses of ApplicationError
ErrorClasses ==
  {"ConfigurationError", "BackupError", "ValidationError", "StorageError",
   "CommandExecutionError", "NotFoundError", "NotificationError"}

\* errors thrown to the catch clause of processEvent
ThrownErrors(now) ==
  {newApplicationError(class, <<"Failed: ", class>>, NoDetails, c, s, now) :
     class \in ErrorClasses, c \in Causes, s \in Stacks}
    \cup {newError(m, c, s) : m \in {<< >>, <<"boom">>}, c \in Causes, s \in Stacks}
    \cup {thrownValue}

HandlerInit ==
  /\ PipelineInit(ValidEnvironment)
  /\ ShellAtRest
  /\ \E enabled \in BOOLEAN : HandlerAtRest(enabled)
  /\ NoFlights
  /\ LoggerAtRest(DefaultLoggerConfig)

\* processEvent(event) up to the completion of `await this.performBackup()`
processEvent(ev) ==
  /\ hpc = "Idle"
  /\ invocations < MaxInvocations
  /\ invocations' = invocations + 1
  /\ event' = ev
  /\ ReadClock
  /\ \E p \in {[kind |-> "returned", result |-> r, error |-> NoThrown] :
                 r \in {HandlerSuccessResult(clock')} \cup HandlerFailureResults(clock')}
              \cup {[kind |-> "threw", result |-> NoResult, error |-> e] :
                      e \in ThrownErrors(clock')} :
       performed' = p
  /\ hpc' = "Performed"
  /\ UNCHANGED <<notificationsEnabled, notifications, handled, response>>
  /\ UNCHANGED <<pipelineVarsButClock, shellVars, flight, loggerVars>>

\* variant of the notification step: isEnabled() is not consulted
Notify_always(kind, text, stack) ==
  /\ hpc = "Performed"
  /\ \E delivered \in BOOLEAN :
       notifications' = Append(notifications,
         [kind |-> kind, text |-> text, stack |-> stack, delivered |-> delivered])
  /\ hpc' = "Notified"
  /\ UNCHANGED <<invocations, notificationsEnabled, event, performed, handled, response>>
  /\ UNCHANGED <<pipelineVars, shellVars, flight, loggerVars>>

\* the notification provider is handed one message; it returns whether or
\* not the message was delivered
Notify(kind, text, stack) ==
  /\ hpc = "Performed"
  /\ IF notificationsEnabled
     THEN \E delivered \in BOOLEAN :
            notifications' = Append(notifications,
              [kind |-> kind, text |-> text, stack |-> stack, delivered |-> delivered])
     ELSE UNCHANGED notifications
  /\ hpc' = "Notified"
  /\ UNCHANGED <<invocations, notificationsEnabled, event, performed, handled, response>>
  /\ UNCHANGED <<pipelineVars, shellVars, flight, loggerVars>>

notifyBackupSuccess ==
  /\ performed.kind = "returned"
  /\ performed.result.success
  /\ Notify("success", performed.result.backupId, "none")

notifyBackupFailure ==
  /\ performed.kind = "returned"
  /\ ~performed.result.success
  /\ Notify("failure", performed.result.error, "none")

notifyUnexpectedError ==
  /\ performed.kind = "threw"
  /\ Notify("failure",
            IF performed.error.isError THEN performed.error.message
            ELSE <<"Unknown error">>,
            performed.error.stack)

\* variant of the success path: a notification that was not delivered is
\* answered with 500
returnSuccessResponse_delivered ==
  /\ hpc = "Notified"
  /\ performed.kind = "returned"
  /\ performed.result.success
  /\ response' = IF notifications # << >> /\ ~notifications[Len(notifications)].delivered
                 THEN [createSuccessResponse(performed.result, event)
                         EXCEPT !.statusCode = 500]
                 ELSE createSuccessResponse(performed.result, event)
  /\ hpc' = "Responded"
  /\ UNCHANGED <<invocations, notificationsEnabled, event, performed,
                 notifications, handled>>
  /\ UNCHANGED <<pipelineVars, shellVars, flight, loggerVars>>

\* return this.createSuccessResponse(backupResult, event)
returnSuccessResponse ==
  /\ hpc = "Notified"
  /\ performed.kind = "returned"
  /\ performed.result.success
  /\ response' = createSuccessResponse(performed.result, event)
  /\ hpc' = "Responded"
  /\ UNCHANGED <<invocations, notificationsEnabled, event, performed,
                 notifications, handled>>
  /\ UNCHANGED <<pipelineVars, shellVars, flight, loggerVars>>

\* handleFailedBackup: handleError(new BackupError(...))
handleFailedBackup ==
  /\ hpc = "Notified"
  /\ performed.kind = "returned"
  /\ ~performed.result.success
  /\ ReadClock
  /\ \E stack \in Stacks :
       handled' = failedBackupError(performed.result, stack, clock')
  /\ response' = handleError(handled', clock')
  /\ hpc' = "Responded"
  /\ UNCHANGED <<invocations, notificationsEnabled, event, performed, notifications>>
  /\ UNCHANGED <<pipelineVarsButClock, shellVars, flight, loggerVars>>

\* the catch clause of processEvent: handleError(error)
catchUnexpectedError ==
  /\ hpc = "Notified"
  /\ performed.kind = "threw"
  /\ ReadClock
  /\ handled' = performed.error
  /\ response' = handleError(handled', clock')
  /\ hpc' = "Responded"
  /\ UNCHANGED <<invocations, notificationsEnabled, event, performed, notifications>>
  /\ UNCHANGED <<pipelineVarsButClock, shellVars, flight, loggerVars>>

\* the response has been returned; the handler awaits its next invocation
nextEvent ==
  /\ hpc = "Responded"
  /\ invocations < MaxInvocations
  /\ hpc' = "Idle"
  /\ event' = Undefined
  /\ performed' = NoPerformed
  /\ notifications' = << >>
  /\ handled' = NoThrown
  /\ response' = NoResponse
  /\ UNCHANGED <<invocations, notificationsEnabled>>
  /\ UNCHANGED <<pipelineVars, shellVars, flight, loggerVars>>

HandlerNext ==
  \/ \E ev \in Events : processEvent(ev)
  \/ notifyBackupSuccess
  \/ notifyBackupFailure
  \/ notifyUnexpectedError
  \/ returnSuccessResponse
  \/ handleFailedBackup
  \/ catchUnexpectedError
  \/ nextEvent

HandlerSpec == HandlerInit /\ [][HandlerNext]_vars

(***************************************************************************)
(* Overlapping createBackup calls: the stages of two calls interleave at   *)
(* their awaits; the calls share the file system, the clock and the store. *)
(***************************************************************************)
pipelineLocals ==
  <<started, config, run, pc, options, timestamp, backupPath, finalBackupPath,
    dumpResult, tarResult, lastPut, calls, backupResult, failedAt, thrown,
    outcome, result>>

OverlapInit ==
  /\ PipelineInit(ValidEnvironment)
  /\ ShellAtRest
  /\ HandlerAtRest(FALSE)
  /\ NoFlights
  /\ LoggerAtRest(DefaultLoggerConfig)

\* createBackup(options) is called while other calls may be in flight
beginBackup(r, opts) ==
  /\ flight[r].pc = "Idle"
  /\ IF opts.timestamp = Undefined THEN ReadClock ELSE UNCHANGED clock
  /\ LET ts == deriveTimestamp(opts, clock') IN
       flight' = [flight EXCEPT ![r] =
                    [pc |-> "Dumping", options |-> opts, timestamp |-> ts,
                     backupPath |-> deriveBackupPath(opts, ts),
                     finalBackupPath |-> << >>]]
  /\ UNCHANGED <<fs, store, pipelineLocals, shellVars, handlerVars,
                 loggerVars>>

\* createMongoDump of call r
dumpStep(r) ==
  /\ flight[r].pc = "Dumping"
  /\ \E ev \in ExecEvents, w \in DumpWrites :
       LET f1 == mongodumpEffect(fs, flight[r].backupPath, w)
           err == createMongoDump(f1, flight[r].backupPath, executeResult(ev))
       IN  /\ ev.type = "error" => w = "nothing"
           /\ fs' = f1
           /\ flight' = [flight EXCEPT ![r].pc =
                           IF err.isError THEN "Failed" ELSE "Compressing"]
  /\ UNCHANGED <<clock, store, pipelineLocals, shellVars, handlerVars,
                 loggerVars>>

\* compressBackupIfNeeded of call r; tar exits 0 only when it could read the
\* dump directory
compressStep(r) ==
  /\ flight[r].pc = "Compressing"
  /\ IF ~compressRequested(flight[r].options.compress)
     THEN /\ flight' = [flight EXCEPT ![r].finalBackupPath = flight[r].backupPath,
                                      ![r].pc = "Uploading"]
          /\ UNCHANGED fs
     ELSE \E ev \in ExecEvents, w \in TarWrites :
            LET target == flight[r].backupPath \o <<".tar.gz">>
                c == compressBackupIfNeeded(flight[r].backupPath, executeResult(ev))
            IN  /\ tarPossible(fs, target, ev, w)
                /\ (ev.type = "close" /\ ev.code = 0) => IsDir(fs, flight[r].backupPath)
                /\ fs' = tarEffect(fs, target, w)
                /\ flight' = IF c.error.isError
                             THEN [flight EXCEPT ![r].pc = "Failed"]
                             ELSE [flight EXCEPT ![r].finalBackupPath = c.path,
                                                 ![r].pc = "Uploading"]
  /\ UNCHANGED <<clock, store, pipelineLocals, shellVars, handlerVars,
                 loggerVars>>

\* uploadBackupToS3 of call r
uploadStep(r) ==
  /\ flight[r].pc = "Uploading"
  /\ \E ioError \in BOOLEAN, s3 \in S3Events :
       LET req == uploadRequest(fs, flight[r].finalBackupPath,
                                flight[r].options.compress, config, ioError)
       IN  IF ~req.error.isError /\ s3.ok
           THEN /\ store' = store \cup {<<req.params.Bucket, req.params.Key>>}
                /\ flight' = [flight EXCEPT ![r].pc = "CleaningUp"]
           ELSE /\ flight' = [flight EXCEPT ![r].pc = "Failed"]
                /\ UNCHANGED store
  /\ UNCHANGED <<clock, fs, pipelineLocals, shellVars, handlerVars,
                 loggerVars>>

\* cleanupTemporaryFiles of call r
cleanupStep(r) ==
  /\ flight[r].pc = "CleaningUp"
  /\ \E rm1Fails \in BOOLEAN, rm2Fails \in BOOLEAN :
       fs' = cleanupTemporaryFiles(fs, flight[r].backupPath, flight[r].finalBackupPath,
                                   flight[r].options.compress, rm1Fails, rm2Fails).fs
  /\ flight' = [flight EXCEPT ![r].pc = "Done"]
  /\ UNCHANGED <<clock, store, pipelineLocals, shellVars, handlerVars,
                 loggerVars>>

OverlapNext ==
  \E r \in Flights :
    \/ \E opts \in BackupOptions : beginBackup(r, opts)
    \/ dumpStep(r)
    \/ compressStep(r)
    \/ uploadStep(r)
    \/ cleanupStep(r)

OverlapSpec == OverlapInit /\ [][OverlapNext]_vars

(***************************************************************************)
(* The Logger: debug, info, warn and error resolve the level on the first  *)
(* call and write a line when shouldLog says so.                           *)
(***************************************************************************)
MaxLogCalls == 2

LoggerInit ==
  /\ PipelineInit(ValidEnvironment)
  /\ ShellAtRest
  /\ HandlerAtRest(FALSE)
  /\ NoFlights
  /\ \E cfg \in LoggerConfigs : LoggerAtRest(cfg)

\* one call of a logging method at `level`
logCall(level) ==
  /\ logCalls < MaxLogCalls
  /\ logCalls' = logCalls + 1
  /\ LET init == ensureInitialized(logLevel, logConfig) IN
       /\ logLevel' = init.logLevel
       /\ resolutions' = IF init.resolved THEN resolutions + 1 ELSE resolutions
       /\ lastLog' = [level |-> level,
                      emitted |-> shouldLog(LogLevel(level), init.logLevel)]
  /\ UNCHANGED logConfig
  /\ UNCHANGED <<pipelineVars, shellVars, handlerVars, flight>>

debug == logCall("DEBUG")
info == logCall("INFO")
warn == logCall("WARN")
error == logCall("ERROR")

LoggerNext == debug \/ info \/ warn \/ error

LoggerSpec == LoggerInit /\ [][LoggerNext]_vars

(***************************************************************************)
(* Properties of createBackup.                                             *)
(***************************************************************************)

\* C1: every BackupResult returned by createBackup has exactly one variant
\* populated: success=true comes with backupId, size and location and
\* without error; success=false comes with an empty backupId, a non-empty
\* error and without size and location.
C1_ResultVariant ==
  outcome = "returned" =>
    IF result.success
    THEN DOMAIN result = {"success", "backupId", "timestamp", "size", "location"}
    ELSE /\ DOMAIN result = {"success", "backupId", "timestamp", "error"}
         /\ result.backupId = << >>
         /\ result.error # << >>

C1_Witness ==
  /\ outcome = "returned"
  /\ ~result.success
  /\ thrown.class = "StorageError"

\* C2: createBackup never throws: whichever step fails (missing
\* configuration, dump verification, tar, reading the artifact, the put),
\* the call completes by returning a failure result.
C2_NeverThrows ==
  /\ outcome # "threw"
  /\ pc = "Failed" => (outcome = "returned" /\ ~result.success)

C2_Witness ==
  /\ pc = "Failed"
  /\ failedAt = "Uploading"
  /\ thrown.class = "Error"
  /\ outcome = "returned"

\* C3: a step removes a scratch path only after the put of the run has
\* returned successfully; when the put fails, the dump directory and the
\* final artifact both exist in the state createBackup returns in.
C3_NoCleanupBeforePut ==
  [][/\ (DOMAIN fs) \ (DOMAIN fs') # {} =>
          (pc = "CleaningUp" /\ backupResult # NoUpload
             /\ <<lastPut.Bucket, lastPut.Key>> \in store)
     /\ (pc = "Uploading" /\ pc' = "Failed" /\ Len(calls') > Len(calls)) =>
          (NonEmptyDir(fs', backupPath) /\ IsFile(fs', finalBackupPath))
    ]_vars

C3_Witness ==
  /\ pc = "Failed"
  /\ thrown.class = "StorageError"
  /\ calls = <<"mongodump", "tar", "put">>
  /\ NonEmptyDir(fs, backupPath)
  /\ IsFile(fs, finalBackupPath)

\* C4: once the put has succeeded the run returns success=true, whatever
\* the removals of the cleanup do: a failing removal neither fails the run
\* nor throws.
C4_CleanupNeverFailsRun ==
  backupResult # NoUpload =>
    /\ pc \in {"CleaningUp", "Done"}
    /\ outcome # "threw"
    /\ pc = "Done" => (outcome = "returned" /\ result.success)

\* the removal of the dump directory has thrown: it is still there
C4_Witness ==
  /\ pc = "Done"
  /\ result.success
  /\ calls = <<"mongodump", "tar", "put", "rm:backupPath">>
  /\ NonEmptyDir(fs, backupPath)

\* C5: the dump stage fails iff, after mongodump has completed, the target
\* directory is missing or has no entries, whatever the exit code.
C5_DumpVerifiedByDirectory ==
  [][(pc = "Dumping" /\ Len(calls') > Len(calls)) =>
       /\ (pc' = "Failed") <=> ~NonEmptyDir(fs', backupPath)
       /\ (pc' = "Compressing") <=> NonEmptyDir(fs', backupPath)
    ]_vars

\* a non-zero exit code with a non-empty directory passed the verification
C5_Witness ==
  /\ pc = "Compressing"
  /\ dumpResult.exitCode = 1
  /\ ~dumpResult.success
  /\ NonEmptyDir(fs, backupPath)

\* C6: a stage failure aborts the remaining stages: after a failed dump
\* verification only mongodump was invoked, after a failed tar only
\* mongodump and tar; the error of the result contains the stderr of the
\* failing tool.
C6_FailureAbortsRemainingStages ==
  /\ (pc = "Failed" /\ failedAt = "Dumping" /\ thrown.class = "BackupError") =>
        /\ calls = <<"mongodump">>
        /\ Contains(result.error, dumpResult.stderr)
  /\ (tarResult # NoCommandResult /\ ~tarResult.success) =>
        /\ pc = "Failed"
        /\ failedAt = "Compressing"
        /\ calls = <<"mongodump", "tar">>
        /\ Contains(result.error, tarResult.stderr)

C6_Witness ==
  /\ pc = "Failed"
  /\ failedAt = "Compressing"
  /\ tarResult.stderr = <<"E">>
  /\ result.error = <<"Failed to compress backup: ", "E">>

\* C7: when the bucket name or the connection URI is absent, the run fails
\* with a configuration error and no mongodump, tar or put was invoked in
\* that run.
C7_ConfigFailurePrecedesCalls ==
  (pc = "Failed" /\ thrown.class = "ConfigurationError") => calls = << >>

\* C8: every result of a run carries the timestamp fixed at the start of
\* the run.
C8_ResultCarriesRunTimestamp ==
  outcome = "returned" => result.timestamp = timestamp

\* C9: for a successful run backupId is the non-empty key that was put,
\* size is positive and is the length of the body handed to the store, and
\* location is s3://<decoded bucket>/<key>.
C9_SuccessResult ==
  (outcome = "returned" /\ result.success) =>
    /\ result.backupId # << >>
    /\ result.backupId = lastPut.Key
    /\ <<lastPut.Bucket, lastPut.Key>> \in store
    /\ result.size > 0
    /\ result.size = lastPut.Body
    /\ result.location
         = <<"s3://">> \o base64Decode(config.AWS_S3_BUCKET_NAME) \o <<"/">> \o lastPut.Key
    /\ IsPrefix(<<"s3://">>, result.location)
    /\ Contains(result.location, result.backupId)

C9_Witness ==
  /\ outcome = "returned"
  /\ result.success
  /\ result.backupId = <<"backups/", "a", ".tar.gz">>
  /\ result.location = <<"s3://", "bucket", "/", "backups/", "a", ".tar.gz">>

StageOrder ==
  {<<"Idle", "Dumping">>, <<"Dumping", "Compressing">>,
   <<"Compressing", "Uploading">>, <<"Uploading", "CleaningUp">>,
   <<"CleaningUp", "Done">>,
   <<"Dumping", "Failed">>, <<"Compressing", "Failed">>, <<"Uploading", "Failed">>}

\* C10: within one run the stage only moves along Idle, Dumping,
\* Compressing, Uploading, CleaningUp, Done; Failed is entered only from
\* Dumping, Compressing or Uploading, and neither Failed nor Done is left.
C10_StageOrder ==
  [][(run' = run /\ pc' # pc) => <<pc, pc'>> \in StageOrder]_vars

C10_Witness ==
  /\ pc = "Done"
  /\ calls = <<"mongodump", "tar", "put", "rm:backupPath", "rm:finalBackupPath">>
  /\ ~existsSync(fs, backupPath)
  /\ ~existsSync(fs, finalBackupPath)

\* number of invocations of a tool logged in a run
Count(log, tool) == Cardinality({i \in DOMAIN log : log[i] = tool})

\* C11: no stage is retried: within one createBackup call mongodump is
\* invoked at most once, tar at most once and the object-store save at most
\* once, whatever their outcomes.
C11_NoStageRetried ==
  /\ Count(calls, "mongodump") <= 1
  /\ Count(calls, "tar") <= 1
  /\ Count(calls, "put") <= 1

\* the save has failed after mongodump and tar succeeded: nothing ran twice
C11_Witness ==
  /\ pc = "Failed"
  /\ failedAt = "Uploading"
  /\ dumpResult.success
  /\ tarResult.success
  /\ Count(calls, "mongodump") = 1
  /\ Count(calls, "tar") = 1
  /\ Count(calls, "put") = 1

EndsWith(s, suffix) ==
  /\ Len(s) >= Len(suffix)
  /\ SubSeq(s, Len(s) - Len(suffix) + 1, Len(s)) = suffix

C12_WitnessDeclined ==
  /\ options.compress = "false"
  /\ pc = "Uploading"
  /\ calls = <<"mongodump">>
  /\ finalBackupPath = backupPath

\* the key as a function of the timestamp, the name override and the flag
KeyOf(name, ts, compress) ==
  <<"backups/">>
    \o (IF name # Undefined THEN name ELSE <<"mongodb-backup-">> \o ts)
    \o (IF compress # "false" THEN <<".tar.gz">> ELSE << >>)

\* C13: the object key is a function of the run's timestamp, name override
\* (or none) and compression flag alone: every put uses the key
\* backups/<basename of the final artifact> these three determine, whatever
\* the configuration values, the earlier runs and the tools' outcomes, so
\* two runs with the same three inputs derive the same key.
C13_KeyIsFunctionOfInputs ==
  /\ lastPut # NoPut =>
        /\ lastPut.Key = KeyOf(options.name, timestamp, options.compress)
        /\ lastPut.Key = <<"backups/">> \o basename(finalBackupPath)
  /\ backupResult # NoUpload =>
        backupResult.s3Key = KeyOf(options.name, timestamp, options.compress)

\* a second run with the inputs of an earlier one: the earlier put stored
\* the key, the put of this run failed and had derived the same key
C13_Witness ==
  /\ run = 2
  /\ pc = "Failed"
  /\ thrown.class = "StorageError"
  /\ options.name = Undefined
  /\ ~dumpResult.success
  /\ lastPut.Key = KeyOf(Undefined, timestamp, options.compress)
  /\ <<lastPut.Bucket, lastPut.Key>> \in store

\* what stands between mongodb-backup- and the optional .tar.gz of a key
KeyTimestamp(key) ==
  LET rest == SubSeq(key, 3, Len(key)) IN
  IF EndsWith(rest, <<".tar.gz">>) THEN SubSeq(rest, 1, Len(rest) - 1) ELSE rest

\* C14: every key put without a name override has the form
\* backups/mongodb-backup-<timestamp> or
\* backups/mongodb-backup-<timestamp>.tar.gz where <timestamp> contains no
\* ':' and no '.', for a computed timestamp and for a timestamp supplied
\* by the caller in options.timestamp.
C14_KeyForm ==
  (lastPut # NoPut /\ options.name = Undefined) =>
    /\ IsPrefix(<<"backups/", "mongodb-backup-">>, lastPut.Key)
    /\ \A i \in DOMAIN KeyTimestamp(lastPut.Key) :
          KeyTimestamp(lastPut.Key)[i] \notin {":", "."}

\* C20: at the moment mongodump is invoked the target directory does not
\* exist or is empty, for any sequence of earlier runs (runs that failed
\* and left their artifacts and runs given the same name included), so
\* that a run passes the dump verification only on the strength of its own
\* dump.
C20_DumpTargetFresh ==
  (pc = "Dumping" /\ ~decodeMongoUri(config).error.isError) =>
    (~existsSync(fs, backupPath) \/ (IsDir(fs, backupPath) /\ fs[backupPath].n = 0))

\* C21: when tar reports failure the run fails with an error carrying the
\* stderr of tar and the file system is left as tar left it: the dump
\* directory still exists with its entries, every other path is as it was
\* and createBackup performs no removal.
C21_TarFailureLeavesFiles ==
  [][(pc = "Compressing" /\ pc' = "Failed") =>
       /\ ~tarResult'.success
       /\ thrown'.class = "BackupError"
       /\ Contains(result'.error, tarResult'.stderr)
       /\ NonEmptyDir(fs', backupPath)
       /\ \A p \in DOMAIN fs :
            /\ p \in DOMAIN fs'
            /\ p # backupPath \o <<".tar.gz">> => fs'[p] = fs[p]
       /\ calls' = <<"mongodump", "tar">>
    ]_vars

\* tar has failed and has left a truncated archive next to the dump
C21_Witness ==
  /\ pc = "Failed"
  /\ failedAt = "Compressing"
  /\ tarResult.exitCode = 1
  /\ NonEmptyDir(fs, backupPath)
  /\ IsFile(fs, backupPath \o <<".tar.gz">>)
  /\ result.error = <<"Failed to compress backup: ">>

\* C22: a scratch artifact does not outlive its run: when a run fails at
\* dump, compress or upload, a removal of the artifacts the run created
\* was attempted before the failure result is returned (the first run is
\* taken, whose artifacts are all its own).
C22_FailureRemovesScratch ==
  (run = 1 /\ pc = "Failed"
     /\ (existsSync(fs, backupPath) \/ existsSync(fs, backupPath \o <<".tar.gz">>))) =>
    \E i \in DOMAIN calls : calls[i] \in {"rm:backupPath", "rm:finalBackupPath"}

\* C22 (amended): the scratch artifacts of a run are removed by the cleanup
\* stage only, after a successful put; a run that fails at dump, compress
\* or upload attempts no removal, and what it created is still on disk
\* when the failure result is returned.
C22_ScratchRemovedOnSuccessOnly ==
  /\ (\E i \in DOMAIN calls : calls[i] \in {"rm:backupPath", "rm:finalBackupPath"})
        => (pc = "Done" /\ result.success)
  /\ pc = "Failed" =>
        /\ failedAt \in {"Compressing", "Uploading"} => NonEmptyDir(fs, backupPath)
        /\ (failedAt = "Uploading" /\ compressRequested(options.compress)) =>
              IsFile(fs, backupPath \o <<".tar.gz">>)

\* the put of the first run was rejected: directory and archive are kept
C22_Witness ==
  /\ run = 1
  /\ pc = "Failed"
  /\ failedAt = "Uploading"
  /\ lastPut # NoPut
  /\ ~result.success
  /\ NonEmptyDir(fs, backupPath)
  /\ IsFile(fs, backupPath \o <<".tar.gz">>)

\* C23: after a successful put in a compressed run the cleanup attempts
\* both removals: that of the dump directory and, also when the first one
\* failed, that of the final artifact.
C23_BothRemovalsAttempted ==
  (pc = "Done" /\ compressRequested(options.compress)) =>
    calls = <<"mongodump", "tar", "put", "rm:backupPath", "rm:finalBackupPath">>

\* C24: a run with compress=false whose dump verifies and whose put would
\* succeed returns success: the dump directory is accepted as the final
\* artifact by the upload stage, so that with a bucket configured such a
\* run can fail at upload only by a put that was attempted and rejected.
C24_UncompressedRunUploads ==
  (options.compress = "false" /\ pc = "Failed" /\ failedAt = "Uploading"
     /\ ~IsFalsy(configGet(config, "AWS_S3_BUCKET_NAME"))) =>
    (lastPut # NoPut /\ thrown.class = "StorageError")

C27_InvalidConfigurationStartsNothing ==
  ~schemaAccepts(config) =>
      /\ validateConfig(config).class = "ValidationError"
      /\ ~started
      /\ pc = "Idle"
      /\ calls = << >>
      /\ lastPut = NoPut
      /\ store = EmptyStore
      /\ fs = EmptyFs
      /\ result = NoResult

\* the bucket name of the environment is not base64 text and the process
\* has not started
C27_Witness ==
  /\ config.AWS_S3_BUCKET_NAME = <<"%%">>
  /\ IsBase64String(config.MONGO_URI)
  /\ ~started
  /\ pc = "Idle"
  /\ calls = << >>

\* C28: a failed put surfaces from save as a StorageError whose details are
\* the bucket and the key of the attempted put and whose cause is the
\* client's error; createBackup returns the failure result built from the
\* message of that error alone, right after the put.
C28_PutFailureIsStorageError ==
  (pc = "Failed" /\ failedAt = "Uploading" /\ lastPut # NoPut) =>
      /\ thrown.class = "StorageError"
      /\ thrown.details = [bucket |-> lastPut.Bucket, key |-> lastPut.Key]
      /\ thrown.cause.isError
      /\ thrown.message = <<"Failed to save data to S3: ">> \o thrown.cause.message
      /\ outcome = "returned"
      /\ DOMAIN result = {"success", "backupId", "timestamp", "error"}
      /\ ~result.success
      /\ result.error = thrown.message
      /\ result.backupId = << >>
      /\ calls[Len(calls)] = "put"

\* the client has rejected the put of the archive
C28_Witness ==
  /\ pc = "Failed"
  /\ failedAt = "Uploading"
  /\ lastPut.Bucket = <<"bucket">>
  /\ thrown.details.key = lastPut.Key
  /\ thrown.cause = MkError("Error", <<"AccessDenied">>)
  /\ result.error = <<"Failed to save data to S3: ", "AccessDenied">>

\* C32: across the runs of a process a successful put never targets an
\* object an earlier successful run has written: the bucket and key of a
\* put that succeeds are not in the store yet.
C32_NoOverwrite ==
  [][(pc = "Uploading" /\ pc' = "CleaningUp") =>
       <<lastPut'.Bucket, lastPut'.Key>> \notin store]_vars

(***************************************************************************)
(* Properties of executeWithOptions.                                       *)
(***************************************************************************)

\* C18: every CommandResult produced by executeWithOptions satisfies
\* success = (exitCode = 0), on the close path (a null exit code of a
\* signal-terminated child included), on the spawn-error path and on the
\* timeout path.
C18_SuccessIffExitZero ==
  /\ resolveCalls > 0 => (lastResolve.success <=> lastResolve.exitCode = 0)
  /\ promise.settled => (promise.value.success <=> promise.value.exitCode = 0)

\* a child terminated by a signal, without a timeout: close with a null code
C18_Witness ==
  /\ child = "closed"
  /\ childExit = NullCode
  /\ timer = "none"
  /\ ~errored
  /\ promise.settled
  /\ promise.value.exitCode = 1
  /\ ~promise.value.success

\* C19: when the timeout elapses before the child has closed, the child is
\* killed and the caller receives the timeout outcome (exitCode 124,
\* success=false, stderr ending with the timed-out notice); the close event
\* that follows the kill does not replace that outcome.
C19_TimeoutOutcomeKept ==
  timer = "fired" =>
    /\ child \in {"killed", "closed"}
    /\ promise.settled
    /\ promise.value.exitCode = TimeoutExitCode
    /\ ~promise.value.success
    /\ EndsWith(promise.value.stderr, <<"\nCommand execution timed out">>)

\* the close event has followed the kill and has called resolve again
C19_Witness ==
  /\ timer = "fired"
  /\ child = "closed"
  /\ resolveCalls = 2
  /\ lastResolve.exitCode = 1
  /\ promise.value = timeoutResult(stderrBuf)

C15_ResponseMapsOutcome ==
  hpc = "Responded" =>
    /\ response # NoResponse
    /\ (performed.kind = "returned" /\ performed.result.success) =>
         /\ response.statusCode = 200
         /\ response.body.backupResult = performed.result
    /\ (performed.kind = "returned" /\ ~performed.result.success) =>
         /\ response.statusCode = 500
         /\ DOMAIN response.body = {"error"}
         /\ response.body.error.code = "BACKUP_ERROR"
         /\ response.body.error.message = performed.result.error
    /\ performed.kind = "threw" =>
         /\ DOMAIN response.body = {"error"}
         /\ response.statusCode
              = IF performed.error.isApplicationError
                THEN performed.error.statusCode ELSE 500

\* a typed error that carries a status other than 500 was thrown
C15_Witness ==
  /\ hpc = "Responded"
  /\ performed.kind = "threw"
  /\ performed.error.class = "ValidationError"
  /\ response.statusCode = 400
  /\ response.body.error.code = "VALIDATION_ERROR"

C29_StatusIgnoresNotification ==
  hpc = "Responded" =>
    /\ response.statusCode
         = IF performed.kind = "returned"
           THEN (IF performed.result.success THEN 200 ELSE 500)
           ELSE (IF performed.error.isApplicationError
                 THEN StatusCodeOf(performed.error.class) ELSE 500)
    /\ (performed.kind = "returned" /\ performed.result.success) =>
         response = createSuccessResponse(performed.result, event)
    /\ \A i \in DOMAIN notifications :
         (notifications[i].kind = "success") = (response.statusCode = 200)

\* the success notification of a successful backup was not delivered and
\* the answer is 200
C29_Witness ==
  /\ hpc = "Responded"
  /\ notificationsEnabled
  /\ performed.kind = "returned"
  /\ performed.result.success
  /\ Len(notifications) = 1
  /\ notifications[1].kind = "success"
  /\ ~notifications[1].delivered
  /\ response.statusCode = 200

\* C30: per handled event, with notifications enabled exactly one
\* notification is sent, a success notification when the result of the
\* backup has success=true and a failure notification otherwise; nothing is
\* sent before the run has finished and the one notification has been sent
\* when the response is returned; with notifications disabled nothing is
\* ever sent.
C30_OneNotificationPerEvent ==
  /\ ~notificationsEnabled => notifications = << >>
  /\ hpc \in {"Idle", "Performed"} => notifications = << >>
  /\ (notificationsEnabled /\ hpc \in {"Notified", "Responded"}) =>
       /\ Len(notifications) = 1
       /\ performed # NoPerformed
       /\ notifications[1].kind
            = IF performed.kind = "returned" /\ performed.result.success
              THEN "success" ELSE "failure"
  /\ hpc # "Responded" => response = NoResponse
  /\ hpc = "Responded" => response # NoResponse

\* a failed run was notified once, as a failure, and then answered
C30_Witness ==
  /\ notificationsEnabled
  /\ hpc = "Responded"
  /\ performed.kind = "returned"
  /\ ~performed.result.success
  /\ notifications = <<[kind |-> "failure", text |-> performed.result.error,
                        stack |-> "none", delivered |-> TRUE]>>
  /\ response.statusCode = 500

InFlight(r) == flight[r].pc \in {"Dumping", "Compressing", "Uploading", "CleaningUp"}

\* the scratch directory and the archive path of call r
ScratchPaths(r) == {flight[r].backupPath, flight[r].backupPath \o <<".tar.gz">>}

\* C17: two overlapping createBackup calls never share scratch state: the
\* scratch directory and the archive path of a call in flight are distinct
\* from those of every other call in flight, calls started with the same
\* name override or the same timestamp included.
C17_DistinctScratch ==
  \A r1 \in Flights, r2 \in Flights :
    (r1 # r2 /\ InFlight(r1) /\ InFlight(r2)) =>
      ScratchPaths(r1) \cap ScratchPaths(r2) = {}

\* C25: the wait of the dump stage is bounded: while the child of a call
\* made through execute (the call of createMongoDump) runs, a timeout timer
\* is armed, so that a dump tool that never exits is killed and the call
\* returns.
C25_DumpWaitBounded ==
  (caller = "execute" /\ child = "running") => timer = "armed"

(***************************************************************************)
(* Properties of the Logger.                                               *)
(***************************************************************************)

\* C34: a call at level L writes a line iff L is at or above the configured
\* level; the level is resolved once, on the first call, to the configured
\* level (INFO when resolving the configuration fails) and stays what it
\* is; an error-level call writes a line under every configuration.
C34_EmitsIffAtOrAboveLevel ==
  /\ resolutions <= 1
  /\ logCalls = 0 => (logLevel = NoLogLevel /\ resolutions = 0)
  /\ logCalls > 0 =>
       /\ resolutions = 1
       /\ logLevel = IF logConfig.fails THEN 1
                     ELSE CASE logConfig.LOG_LEVEL = "DEBUG" -> 0
                            [] logConfig.LOG_LEVEL = "INFO" -> 1
                            [] logConfig.LOG_LEVEL = "WARN" -> 2
                            [] logConfig.LOG_LEVEL = "ERROR" -> 3
       /\ lastLog.emitted <=> LogLevel(lastLog.level) >= logLevel
       /\ lastLog.level = "ERROR" => lastLog.emitted

\* the configuration could not be resolved; after a debug call that wrote
\* nothing an error call has written its line
C34_Witness ==
  /\ logConfig.fails
  /\ logConfig.LOG_LEVEL = "ERROR"
  /\ logCalls = 2
  /\ resolutions = 1
  /\ logLevel = LogLevel("INFO")
  /\ lastLog = [level |-> "ERROR", emitted |-> TRUE]

====
